---- MODULE Spec2Model ----
(***************************************************************************)
(* Resource-name derivation and configuration validation of the            *)
(* DifyOnAwsStack constructor (lib/dify-on-aws-stack.ts) and of the names  *)
(* the WebService and Redis constructs derive from resourceNamePrefix.     *)
(*                                                                         *)
(* A string is a sequence of UTF-16 code units, each written as a          *)
(* one-token TLA+ string: "a", "-", "!", and "U+00E9" for a code unit      *)
(* outside ASCII.  An optional property is <<>> when omitted (undefined)   *)
(* and <<v>> when supplied with value v.                                   *)
(***************************************************************************)
EXTENDS Integers, Sequences, FiniteSets, TLC

VARIABLES
    pc,         \* position of the running constructor / of the function call
    props,      \* the DifyOnAwsStackProps the stack is constructed with
    stackEnv,   \* this.account and this.region of the stack
    thrown,     \* <<>> or <<error>>: the Error the constructor threw
    warnings,   \* annotations added with addWarningV2, in order
    resources,  \* constructs created so far, in order
    call        \* arguments and result of a direct call of a naming function

vars == <<pc, props, stackEnv, thrown, warnings, resources, call>>

----------------------------------------------------------------------------
(* Bounds of the explored inputs *)

\* longest raw string handed to sanitize on its own
MaxRaw == 4
\* longest free (arbitrary) tail of an environment label
MaxFree == 2
\* longest free suffix handed to buildName and buildBucketName
MaxSuffix == 1
\* how far below a length ceiling the padded labels start
PadWindow == 2
\* largest small maxLength handed to buildName (beside the real ceilings)
MaxLenArg == 5
\* most additionalEnvironmentVariables entries
MaxVars == 2

----------------------------------------------------------------------------
(* Characters *)

LowerAZ == <<"a","b","c","d","e","f","g","h","i","j","k","l","m",
             "n","o","p","q","r","s","t","u","v","w","x","y","z">>
UpperAZ == <<"A","B","C","D","E","F","G","H","I","J","K","L","M",
             "N","O","P","Q","R","S","T","U","V","W","X","Y","Z">>
Digits == {"0","1","2","3","4","5","6","7","8","9"}
Range(f) == {f[i] : i \in DOMAIN f}
LowerSet == Range(LowerAZ)
UpperSet == Range(UpperAZ)

\* the class [a-z0-9-] of the first replace of sanitize
AllowedChars == LowerSet \cup Digits \cup {"-"}
\* line terminators, which the regular expression atom . does not match
LineTerminators == {"LF", "CR", "U+2028", "U+2029"}

None == <<>>
Some(v) == <<v>>

Min(a, b) == IF a < b THEN a ELSE b

\* all sequences over S of length at most n
SeqsUpTo(S, n) == UNION {[1..k -> S] : k \in 0..n}

\* n copies of c
Repeat(c, n) == [i \in 1..n |-> c]

----------------------------------------------------------------------------
(* String primitives of the runtime *)

\* String.prototype.toLowerCase on one code unit: a sequence, since
\* U+0130 lowercases to the two code units U+0069 U+0307
LowerOne(c) ==
    IF c \in UpperSet
    THEN <<LowerAZ[CHOOSE i \in DOMAIN UpperAZ : UpperAZ[i] = c]>>
    ELSE IF c = "U+0130" THEN <<"i", "U+0307">>
    ELSE IF c = "U+212A" THEN <<"k">>
    ELSE IF c = "U+00C9" THEN <<"U+00E9">>
    ELSE <<c>>

\* the lowercased units of value[lo..hi], concatenated (by halves, so that
\* the evaluation stays shallow on long strings)
RECURSIVE FlatLower(_, _, _)
FlatLower(value, lo, hi) ==
    IF lo > hi THEN <<>>
    ELSE IF lo = hi THEN LowerOne(value[lo])
    ELSE LET mid == (lo + hi) \div 2
         IN  FlatLower(value, lo, mid) \o FlatLower(value, mid + 1, hi)

toLowerCase(value) == FlatLower(value, 1, Len(value))

\* .replace(/[^a-z0-9-]/g, '-')
ReplaceDisallowed(s) ==
    [i \in 1..Len(s) |-> IF s[i] \in AllowedChars THEN s[i] ELSE "-"]

\* .replace(/-+/g, '-')
CollapseHyphens(s) ==
    LET idx == SelectSeq([i \in 1..Len(s) |-> i],
                         LAMBDA i : ~(s[i] = "-" /\ i > 1 /\ s[i - 1] = "-"))
    IN  [k \in 1..Len(idx) |-> s[idx[k]]]

\* variant: only the leading '-' is removed
StripEndsKeepTrailing(s) ==
    IF Len(s) > 0 /\ s[1] = "-" THEN Tail(s) ELSE s

\* .replace(/^-|-$/g, ''): one leading and one trailing '-' are removed
StripEnds(s) ==
    LET a == IF Len(s) > 0 /\ s[1] = "-" THEN Tail(s) ELSE s
    IN  IF Len(a) > 0 /\ a[Len(a)] = "-" THEN SubSeq(a, 1, Len(a) - 1) ELSE a

\* .replace(/-+$/g, '')
RECURSIVE StripTrailingHyphens(_)
StripTrailingHyphens(s) ==
    IF Len(s) > 0 /\ s[Len(s)] = "-"
    THEN StripTrailingHyphens(SubSeq(s, 1, Len(s) - 1))
    ELSE s

\* .slice(0, n) for n >= 0
Slice0(s, n) == SubSeq(s, 1, Min(n, Len(s)))

\* .padEnd(n, c) for a one-unit filler c
PadEnd(s, n, c) == IF Len(s) >= n THEN s ELSE s \o Repeat(c, n - Len(s))

\* Array.prototype.join
RECURSIVE Join(_, _)
Join(parts, sep) ==
    IF Len(parts) = 0 THEN <<>>
    ELSE IF Len(parts) = 1 THEN parts[1]
    ELSE parts[1] \o sep \o Join(Tail(parts), sep)

NonEmpty(part) == Len(part) > 0

----------------------------------------------------------------------------
(* sanitize *)

sanitize(value) ==
    StripEnds(CollapseHyphens(ReplaceDisallowed(toLowerCase(value))))

\* ^[a-z0-9]+(-[a-z0-9]+)*$
MatchesToken(s) ==
    /\ Len(s) > 0
    /\ \A i \in 1..Len(s) : s[i] \in AllowedChars
    /\ s[1] # "-"
    /\ s[Len(s)] # "-"
    /\ \A i \in 1..(Len(s) - 1) : ~(s[i] = "-" /\ s[i + 1] = "-")

----------------------------------------------------------------------------
(* String literals of the source *)

StrDev == <<"d","e","v">>
StrEnv == <<"e","n","v">>
StrDify == <<"d","i","f","y">>
StrDifyDash == <<"d","i","f","y","-">>
StrCluster == <<"c","l","u","s","t","e","r">>
StrAccessLogs == <<"a","c","c","e","s","s","-","l","o","g","s">>
StrStorage == <<"s","t","o","r","a","g","e">>
StrDashWeb == <<"-","w","e","b">>
StrDashRedisSubnets == <<"-","r","e","d","i","s","-","s","u","b","n","e","t","s">>
StrDashRedis == <<"-","r","e","d","i","s">>

\* length ceilings written in the source
BucketNameMax == 63
BucketNameMin == 3
ClusterNameMax == 255
WebNameMax == 255
SubnetGroupNameMax == 255
ReplicationGroupIdMax == 40

----------------------------------------------------------------------------
(* Names derived in the DifyOnAwsStack constructor *)

\* environmentName: environmentNameInput = 'dev'
environmentNameInput(p) ==
    IF p.environmentName = None THEN StrDev ELSE p.environmentName[1]

\* sanitize(environmentNameInput) || 'env'
environmentName(p) ==
    LET s == sanitize(environmentNameInput(p))
    IN  IF NonEmpty(s) THEN s ELSE StrEnv

\* sanitize(`dify-${environmentName}`) || 'dify'
resourceNamePrefix(p) ==
    LET s == sanitize(StrDifyDash \o environmentName(p))
    IN  IF NonEmpty(s) THEN s ELSE StrDify

\* variant: the cut at maxLength is not followed by the strip of trailing '-'
buildNameNoStrip(p, suffix, maxLength) ==
    LET sanitizedSuffix == sanitize(suffix)
        combined == sanitize(Join(SelectSeq(<<resourceNamePrefix(p), sanitizedSuffix>>,
                                            NonEmpty), <<"-">>))
    IN  Slice0(combined, maxLength)

buildName(p, suffix, maxLength) ==
    LET sanitizedSuffix == sanitize(suffix)
        combined == sanitize(Join(SelectSeq(<<resourceNamePrefix(p), sanitizedSuffix>>,
                                            NonEmpty), <<"-">>))
        truncated == StripTrailingHyphens(Slice0(combined, maxLength))
    IN  Slice0(IF NonEmpty(truncated) THEN truncated
               ELSE IF NonEmpty(combined) THEN combined
               ELSE resourceNamePrefix(p),
               maxLength)

\* !Token.isUnresolved(x) ? sanitize(x) : undefined, for x = this.account, this.region
segment(x) == IF x = None THEN None ELSE Some(sanitize(x[1]))

\* (part?.length ?? 0) > 0
SegmentNonEmpty(part) == part # None /\ Len(part[1]) > 0

bucketPrefix(p, e) ==
    LET parts == SelectSeq(<<Some(resourceNamePrefix(p)), segment(e.account),
                             segment(e.region)>>, SegmentNonEmpty)
    IN  sanitize(Join([i \in 1..Len(parts) |-> parts[i][1]], <<"-">>))

\* variant: the candidate is not cut at 63
buildBucketNameNoSlice(p, e, suffix) ==
    LET base == IF NonEmpty(bucketPrefix(p, e)) THEN bucketPrefix(p, e)
                ELSE resourceNamePrefix(p)
    IN  StripTrailingHyphens(sanitize(Join(SelectSeq(<<base, suffix>>, NonEmpty), <<"-">>)))

buildBucketName(p, e, suffix) ==
    LET base == IF NonEmpty(bucketPrefix(p, e)) THEN bucketPrefix(p, e)
                ELSE resourceNamePrefix(p)
        sliced == Slice0(sanitize(Join(SelectSeq(<<base, suffix>>, NonEmpty), <<"-">>)),
                         BucketNameMax)
        candidate == StripTrailingHyphens(sliced)
    IN  IF Len(candidate) < BucketNameMin
        THEN Slice0(PadEnd(resourceNamePrefix(p), BucketNameMin, "0"), BucketNameMax)
        ELSE candidate

----------------------------------------------------------------------------
(* Names derived from resourceNamePrefix in the WebService and Redis constructs *)

\* `${resourceNamePrefix}-web`.slice(0, 255)
webTaskFamily(prefix) == Slice0(prefix \o StrDashWeb, WebNameMax)
webServiceName(prefix) == Slice0(prefix \o StrDashWeb, WebNameMax)

\* `${props.resourceNamePrefix}-redis-subnets`.slice(0, 255).replace(/-+$/g, '')
redisSubnetGroupName(prefix) ==
    StripTrailingHyphens(Slice0(prefix \o StrDashRedisSubnets, SubnetGroupNameMax))

\* `${props.resourceNamePrefix}-redis`.slice(0, 40).replace(/-+$/g, '')
redisReplicationGroupId(prefix) ==
    StripTrailingHyphens(Slice0(prefix \o StrDashRedis, ReplicationGroupIdMax))

----------------------------------------------------------------------------
(* Inputs *)

\* code units of the raw strings handed to sanitize on its own
RawChars == {"a", "Z", "7", "-", "!", "U+00E9", "U+0130"}
RawStrings == SeqsUpTo(RawChars, MaxRaw)

\* code units of the free part of labels and suffixes
FreeChars == {"a", "-", "U+0130"}
FreeStrings == SeqsUpTo(FreeChars, MaxFree)

\* the ceilings a label is padded towards
Ceilings == {ReplicationGroupIdMax, BucketNameMax, WebNameMax}
PadLengths ==
    {0} \cup {c - Len(StrDifyDash) - k : c \in Ceilings, k \in 0..PadWindow}

\* environment labels: a run of 'a' followed by a free part
Labels == {Repeat("a", n) \o f : n \in PadLengths, f \in FreeStrings}

Suffixes == SeqsUpTo(FreeChars, MaxSuffix) \cup {StrCluster, StrAccessLogs, StrStorage}
MaxLengths == (1..MaxLenArg) \cup Ceilings

StrAccount == <<"1","2","3","4","5","6","7","8","9","0","1","2">>
StrRegion == <<"u","s","-","w","e","s","t","-","2">>
\* this.account / this.region: an unresolved token (None) or a concrete value
Accounts == {None, Some(StrAccount)}
Regions == {None, Some(StrRegion)}

DefaultProps ==
    [environmentName |-> None, vpcId |-> None, vpcIsolated |-> None,
     useNatInstance |-> None, useCloudFront |-> None, internalAlb |-> None,
     domainName |-> None, subDomain |-> None, setupEmail |-> None,
     additionalEnvironmentVariables |-> None]

NoCall == [fn |-> "none", arg |-> <<>>, maxLength |-> 0, result |-> <<>>, again |-> <<>>]

----------------------------------------------------------------------------
(* Direct calls of the naming functions *)

InitSanitize ==
    /\ pc = "call"
    /\ props = DefaultProps
    /\ stackEnv = [account |-> None, region |-> None]
    /\ thrown = None
    /\ warnings = <<>>
    /\ resources = <<>>
    /\ \E s \in RawStrings : call = [NoCall EXCEPT !.fn = "sanitize", !.arg = s]

\* sanitize(raw), and sanitize applied to its own result
CallSanitize ==
    /\ pc = "call"
    /\ call.fn = "sanitize"
    /\ pc' = "returned"
    /\ call' = [call EXCEPT !.result = sanitize(call.arg),
                            !.again = sanitize(sanitize(call.arg))]
    /\ UNCHANGED <<props, stackEnv, thrown, warnings, resources>>

NextSanitize == CallSanitize

SpecSanitize == InitSanitize /\ [][NextSanitize]_vars

InitBuildName ==
    /\ pc = "call"
    /\ \E l \in {None} \cup {Some(x) : x \in Labels} :
          props = [DefaultProps EXCEPT !.environmentName = l]
    /\ stackEnv = [account |-> None, region |-> None]
    /\ thrown = None
    /\ warnings = <<>>
    /\ resources = <<>>
    /\ call = NoCall

InitBucketName ==
    /\ pc = "call"
    /\ \E l \in {None} \cup {Some(x) : x \in Labels} :
          props = [DefaultProps EXCEPT !.environmentName = l]
    /\ \E a \in Accounts, r \in Regions : stackEnv = [account |-> a, region |-> r]
    /\ thrown = None
    /\ warnings = <<>>
    /\ resources = <<>>
    /\ call = NoCall

CallBuildName ==
    /\ pc = "call"
    /\ \E suffix \in Suffixes, maxLength \in MaxLengths :
          call' = [fn |-> "buildName", arg |-> suffix, maxLength |-> maxLength,
                   result |-> buildName(props, suffix, maxLength), again |-> <<>>]
    /\ pc' = "returned"
    /\ UNCHANGED <<props, stackEnv, thrown, warnings, resources>>

CallBuildBucketName ==
    /\ pc = "call"
    /\ \E suffix \in Suffixes :
          call' = [fn |-> "buildBucketName", arg |-> suffix, maxLength |-> 0,
                   result |-> buildBucketName(props, stackEnv, suffix), again |-> <<>>]
    /\ pc' = "returned"
    /\ UNCHANGED <<props, stackEnv, thrown, warnings, resources>>

NextBuildName == CallBuildName

SpecBuildName == InitBuildName /\ [][NextBuildName]_vars

NextBucketName == CallBuildBucketName

SpecBucketName == InitBucketName /\ [][NextBucketName]_vars

----------------------------------------------------------------------------
(* Claims about the naming functions *)

\* C1: for every input string s, sanitize(s) is empty or matches
\* ^[a-z0-9]+(-[a-z0-9]+)*$ (no leading, trailing or doubled '-'), and
\* sanitize(sanitize(s)) = sanitize(s).
C1_SanitizeTokenIdempotent ==
    (pc = "returned" /\ call.fn = "sanitize") =>
        /\ call.result = <<>> \/ MatchesToken(call.result)
        /\ call.again = call.result

\* a raw string with upper-case, non-ASCII and punctuation units whose
\* sanitized form is non-empty and shorter than the input
C1_Witness ==
    /\ pc = "returned" /\ call.fn = "sanitize"
    /\ \E i \in DOMAIN call.arg : call.arg[i] \in {"!", "U+00E9", "U+0130"}
    /\ \E i \in DOMAIN call.arg : call.arg[i] = "Z"
    /\ call.result # <<>>
    /\ Len(call.result) < Len(call.arg)

\* C2: for every environment label, suffix and maxLength >= 1, buildName
\* returns a name of length <= maxLength that is not empty and does not end
\* with '-'.
C2_BuildNameBounded ==
    (pc = "returned" /\ call.fn = "buildName") =>
        /\ Len(call.result) <= call.maxLength
        /\ Len(call.result) >= 1
        /\ call.result[Len(call.result)] # "-"

\* the cut at maxLength falls right after a '-', which is then stripped
C2_Witness ==
    /\ pc = "returned" /\ call.fn = "buildName"
    /\ call.maxLength >= 1
    /\ Len(call.result) < call.maxLength
    /\ Len(buildName(props, call.arg, call.maxLength + 1)) > call.maxLength

\* C3: for every environment label, account/region (resolved or not) and
\* suffix, buildBucketName returns a name of length in [3, 63] made only of
\* lowercase letters, digits and hyphens.
C3_BucketNameValid ==
    (pc = "returned" /\ call.fn = "buildBucketName") =>
        /\ Len(call.result) >= 3
        /\ Len(call.result) <= 63
        /\ \A i \in DOMAIN call.result : call.result[i] \in AllowedChars

\* a label with a non-ASCII unit, long enough that the name is cut at 63
C3_Witness ==
    /\ pc = "returned" /\ call.fn = "buildBucketName"
    /\ props.environmentName # None
    /\ \E i \in DOMAIN props.environmentName[1] : props.environmentName[1][i] = "U+0130"
    /\ Len(props.environmentName[1]) > 63
    /\ Len(call.result) = 63

----------------------------------------------------------------------------
(* Configuration values *)

\* truthiness of an optional boolean / of an optional string
TruthyBool(o) == o # None /\ o[1]
TruthyStr(o) == o # None /\ o[1] # ""

\* destructuring defaults: useCloudFront = true, internalAlb = false
useCloudFront(p) == IF p.useCloudFront = None THEN TRUE ELSE p.useCloudFront[1]
internalAlb(p) == IF p.internalAlb = None THEN FALSE ELSE p.internalAlb[1]

\* /-......$/.test(name): a '-' seven units before the end, followed by six
\* units none of which is a line terminator
MatchesHyphenSix(name) ==
    /\ Len(name) >= 7
    /\ name[Len(name) - 6] = "-"
    /\ \A i \in (Len(name) - 5)..Len(name) : name[i] \notin LineTerminators

\* typeof v != 'string' && 'secretName' in v
IsSecretRef(v) == v.kind = "secret"

\* the secretName of every secret reference whose name matches, in input order
filteredSecretNames(p) ==
    LET values == IF p.additionalEnvironmentVariables = None THEN <<>>
                  ELSE p.additionalEnvironmentVariables[1]
        secrets == SelectSeq(values, IsSecretRef)
        hits == SelectSeq(secrets, LAMBDA v : MatchesHyphenSix(v.name))
    IN  [i \in 1..Len(hits) |-> hits[i].name]

\* variant: the two options count only when true
VpcRuleViolatedOnlyWhenTrue(p) ==
    TruthyStr(p.vpcId) /\ (TruthyBool(p.vpcIsolated) \/ TruthyBool(p.useNatInstance))

\* props.vpcId && (props.vpcIsolated != null || props.useNatInstance != null)
VpcRuleViolated(p) ==
    TruthyStr(p.vpcId) /\ (p.vpcIsolated # None \/ p.useNatInstance # None)

\* variant: the undefaulted props.useCloudFront is read
CdnRuleViolatedUndefaulted(p) == TruthyBool(p.useCloudFront) /\ p.internalAlb # None

\* useCloudFront && props.internalAlb != null
CdnRuleViolated(p) == useCloudFront(p) /\ p.internalAlb # None

\* props.domainName == null && props.subDomain != null
SubDomainRuleViolated(p) == p.domainName = None /\ p.subDomain # None

\* props.setupEmail && props.domainName == null
EmailRuleViolated(p) == TruthyBool(p.setupEmail) /\ p.domainName = None

\* filtered.length > 0
SecretRuleViolated(p) == Len(filteredSecretNames(p)) > 0

\* !props.useCloudFront && props.domainName == null && !internalAlb
AdvisoryCondition(p) ==
    /\ ~TruthyBool(p.useCloudFront)
    /\ p.domainName = None
    /\ ~internalAlb(p)

VpcError(p) ==
    [rule |-> "vpc",
     message |-> <<"When you import an existing VPC (", p.vpcId[1],
                   "), you cannot set useNatInstance or vpcIsolated properties!">>]
CdnError ==
    [rule |-> "cdn",
     message |-> <<"You cannot set internalAlb property when useCloudFront is true!">>]
SubDomainError ==
    [rule |-> "subDomain",
     message |-> <<"You cannot set subDomain property without domainName!">>]
EmailError ==
    [rule |-> "email",
     message |-> <<"You cannot enable setupEmailServer without domainName!">>]
\* `secretName cannot ends with ... ! ${filtered.join(', ')}`
SecretError(p) ==
    [rule |-> "secret",
     message |-> <<"secretName cannot ends with a hyphen and 6 characters! ">>
                 \o Join(filteredSecretNames(p), <<",", " ">>)]

AdvisoryId == "Dify:albWithoutEncryption"

Construct(id, variant, names) == [id |-> id, variant |-> variant, names |-> names]

----------------------------------------------------------------------------
(* The DifyOnAwsStack constructor, one step per statement *)

\* the statement at pc throws err when cond holds, else control moves on
Check(at, cond, err, next) ==
    /\ pc = at
    /\ IF cond
       THEN pc' = "thrown" /\ thrown' = Some(err)
       ELSE pc' = next /\ UNCHANGED thrown
    /\ UNCHANGED <<props, stackEnv, warnings, resources, call>>

\* the statement at pc creates a construct
Create(at, construct, next) ==
    /\ pc = at
    /\ resources' = Append(resources, construct)
    /\ pc' = next
    /\ UNCHANGED <<props, stackEnv, thrown, warnings, call>>

\* the statement at pc creates a construct when cond holds
CreateIf(at, cond, construct, next) ==
    /\ pc = at
    /\ resources' = IF cond THEN Append(resources, construct) ELSE resources
    /\ pc' = next
    /\ UNCHANGED <<props, stackEnv, thrown, warnings, call>>

CheckVpcRule ==
    Check("vpcRule", VpcRuleViolated(props), VpcError(props), "cdnRule")

CheckCdnRule ==
    Check("cdnRule", CdnRuleViolated(props), CdnError, "subDomainRule")

CheckSubDomainRule ==
    Check("subDomainRule", SubDomainRuleViolated(props), SubDomainError, "emailRule")

CheckEmailRule ==
    Check("emailRule", EmailRuleViolated(props), EmailError, "secretRule")

CheckSecretRule ==
    Check("secretRule", SecretRuleViolated(props), SecretError(props), "advisory")

Advise ==
    /\ pc = "advisory"
    /\ warnings' = IF AdvisoryCondition(props)
                   THEN Append(warnings, AdvisoryId) ELSE warnings
    /\ pc' = "hostedZone"
    /\ UNCHANGED <<props, stackEnv, thrown, resources, call>>

LookupHostedZone ==
    CreateIf("hostedZone", TruthyStr(props.domainName),
             Construct("HostedZone", "lookup", <<>>), "vpc")

CreateVpc ==
    Create("vpc",
           Construct("Vpc", IF TruthyStr(props.vpcId) THEN "imported" ELSE "created", <<>>),
           "accessLogBucket")

CreateAccessLogBucket ==
    Create("accessLogBucket",
           Construct("AccessLogBucket", "Bucket",
                     <<buildBucketName(props, stackEnv, StrAccessLogs)>>),
           "cluster")

CreateCluster ==
    Create("cluster",
           Construct("Cluster", "Cluster", <<buildName(props, StrCluster, ClusterNameMax)>>),
           "postgres")

CreatePostgres ==
    Create("postgres", Construct("Postgres", "Postgres", <<>>), "redis")

CreateRedis ==
    Create("redis",
           Construct("Redis", "Redis",
                     <<redisSubnetGroupName(resourceNamePrefix(props)),
                       redisReplicationGroupId(resourceNamePrefix(props))>>),
           "storageBucket")

CreateStorageBucket ==
    Create("storageBucket",
           Construct("StorageBucket", "Bucket",
                     <<buildBucketName(props, stackEnv, StrStorage)>>),
           "alb")

CreateAlb ==
    Create("alb",
           IF useCloudFront(props)
           THEN Construct("Alb", "AlbWithCloudFront", <<>>)
           ELSE Construct("Alb", IF internalAlb(props) THEN "AlbInternal" ELSE "AlbPublic",
                          <<>>),
           "email")

CreateEmail ==
    CreateIf("email", TruthyStr(props.domainName) /\ TruthyBool(props.setupEmail),
             Construct("Email", "EmailService", <<>>), "apiService")

CreateApiService ==
    Create("apiService", Construct("ApiService", "ApiService", <<>>), "webService")

CreateWebService ==
    Create("webService",
           Construct("WebService", "WebService",
                     <<webTaskFamily(resourceNamePrefix(props)),
                       webServiceName(resourceNamePrefix(props))>>),
           "output")

CreateOutput ==
    Create("output", Construct("DifyUrl", "CfnOutput", <<>>), "done")

Next ==
    \/ CheckVpcRule
    \/ CheckCdnRule
    \/ CheckSubDomainRule
    \/ CheckEmailRule
    \/ CheckSecretRule
    \/ Advise
    \/ LookupHostedZone
    \/ CreateVpc
    \/ CreateAccessLogBucket
    \/ CreateCluster
    \/ CreatePostgres
    \/ CreateRedis
    \/ CreateStorageBucket
    \/ CreateAlb
    \/ CreateEmail
    \/ CreateApiService
    \/ CreateWebService
    \/ CreateOutput

----------------------------------------------------------------------------
(* Configurations the constructor is run with *)

OptBool == {None, Some(FALSE), Some(TRUE)}

StrSecretExample == <<"m","y","s","e","c","r","e","t","-","a","b","1","2","c","d">>
StrSecretFive == <<"k","-","a","b","c","d","e">>
StrSecretDouble == <<"k","-","-","a","b","c","d","e">>
StrSecretNewline == <<"k","-","a","b","c","d","e","LF">>
StrPlainValue == <<"p","-","a","b","c","d","e","f">>

VariableValues ==
    {[kind |-> "string", name |-> StrPlainValue],
     [kind |-> "secret", name |-> StrSecretExample],
     [kind |-> "secret", name |-> StrSecretFive],
     [kind |-> "secret", name |-> StrSecretDouble],
     [kind |-> "secret", name |-> StrSecretNewline]}

Configs ==
    [environmentName : {None},
     vpcId : {None, Some(""), Some("vpc-0abc")},
     vpcIsolated : OptBool,
     useNatInstance : OptBool,
     useCloudFront : OptBool,
     internalAlb : OptBool,
     domainName : {None, Some(""), Some("example.com")},
     subDomain : {None, Some("app")},
     setupEmail : OptBool,
     additionalEnvironmentVariables :
         {None} \cup {Some(vs) : vs \in SeqsUpTo(VariableValues, MaxVars)}]

\* the constructor run with every combination of the validated options
Init ==
    /\ pc = "vpcRule"
    /\ props \in Configs
    /\ stackEnv = [account |-> Some(StrAccount), region |-> Some(StrRegion)]
    /\ thrown = None
    /\ warnings = <<>>
    /\ resources = <<>>
    /\ call = NoCall

Spec == Init /\ [][Next]_vars

\* the constructor run with every environment label, the other options omitted
InitLabels ==
    /\ pc = "vpcRule"
    /\ \E l \in {None} \cup {Some(x) : x \in Labels} :
          props = [DefaultProps EXCEPT !.environmentName = l]
    /\ \E a \in Accounts, r \in Regions : stackEnv = [account |-> a, region |-> r]
    /\ thrown = None
    /\ warnings = <<>>
    /\ resources = <<>>
    /\ call = NoCall

SpecLabels == InitLabels /\ [][Next]_vars

----------------------------------------------------------------------------
(* Claims about validation *)

ValidationOrder == <<"vpcRule", "cdnRule", "subDomainRule", "emailRule", "secretRule">>
ValidationPcs == Range(ValidationOrder)
PositionOf(at) == CHOOSE i \in DOMAIN ValidationOrder : ValidationOrder[i] = at

ThrownRule == IF thrown = None THEN "none" ELSE thrown[1].rule

\* C4 as amended: the VPC conflict error, whose message contains the
\* supplied vpcId, is raised exactly when vpcId is a non-empty string and
\* useNatInstance or vpcIsolated is set to any value, true or false.
C4_VpcRuleWhenSet ==
    (pc # "vpcRule") =>
        /\ (ThrownRule = "vpc") <=>
              /\ props.vpcId \notin {None, Some("")}
              /\ props.vpcIsolated # None \/ props.useNatInstance # None
        /\ (ThrownRule = "vpc") =>
              \E i \in DOMAIN thrown[1].message : thrown[1].message[i] = props.vpcId[1]

\* the error is raised for an imported VPC with useNatInstance: false
C4_Witness ==
    /\ pc = "thrown" /\ ThrownRule = "vpc"
    /\ props.vpcId = Some("vpc-0abc")
    /\ props.useNatInstance = Some(FALSE)
    /\ props.vpcIsolated = None

\* C4 as stated: the VPC conflict error is raised exactly when vpcId is
\* supplied and useNatInstance is true or vpcIsolated is true.
C4_Original ==
    (pc # "vpcRule") =>
        ((ThrownRule = "vpc") <=>
            /\ props.vpcId \notin {None, Some("")}
            /\ props.vpcIsolated = Some(TRUE) \/ props.useNatInstance = Some(TRUE))

\* C5: whenever CDN is enabled (useCloudFront true or omitted) and
\* internalAlb is true, and the VPC rule did not reject the configuration,
\* the CDN/internal-load-balancer error is raised and no load balancer of
\* either variant is constructed.
C5_CdnInternalAlbRejected ==
    (/\ pc \notin {"vpcRule", "cdnRule"}
     /\ props.useCloudFront \in {None, Some(TRUE)}
     /\ props.internalAlb = Some(TRUE)
     /\ ThrownRule # "vpc") =>
        /\ pc = "thrown"
        /\ thrown = Some(CdnError)
        /\ \A i \in DOMAIN resources : resources[i].id # "Alb"

\* useCloudFront omitted, internalAlb: true, rejected by the CDN rule
C5_Witness ==
    /\ pc = "thrown" /\ ThrownRule = "cdn"
    /\ props.useCloudFront = None
    /\ props.internalAlb = Some(TRUE)

\* a '-' followed by exactly six code units ends the name
EndsHyphenSix(name) == Len(name) >= 7 /\ name[Len(name) - 6] = "-"

OffendingSecretNames ==
    LET values == IF props.additionalEnvironmentVariables = None THEN <<>>
                  ELSE props.additionalEnvironmentVariables[1]
        hits == SelectSeq(values, LAMBDA v : v.kind = "secret" /\ EndsHyphenSix(v.name))
    IN  [i \in 1..Len(hits) |-> hits[i].name]

\* C6 as stated: when rules 1-4 hold, the secret-identifier error is raised
\* iff some secret reference has a secretName ending in a hyphen followed by
\* exactly six characters, and its message lists exactly those names in
\* input order; plain strings are never subject to the rule.
C6_Original ==
    (pc \notin ValidationPcs /\ ThrownRule \in {"none", "secret"}) =>
        /\ (ThrownRule = "secret") <=> (Len(OffendingSecretNames) > 0)
        /\ (ThrownRule = "secret") =>
              Tail(thrown[1].message) = Join(OffendingSecretNames, <<",", " ">>)

\* C7 as stated: with validation passed, the advisory is produced, once,
\* exactly when the effective useCloudFront is false, no domainName is given
\* and the effective internalAlb is false; never when CDN is enabled.
C7_Original ==
    (pc \notin ValidationPcs \cup {"advisory", "thrown"}) =>
        warnings = IF /\ props.useCloudFront = Some(FALSE)
                      /\ props.domainName = None
                      /\ props.internalAlb \in {None, Some(FALSE)}
                   THEN <<AdvisoryId>>
                   ELSE <<>>

\* the first rule, in the order of the claim, that the configuration
\* violates: a secret reference whose secretName ends in a hyphen and six
\* characters violates the fifth
FirstViolated(p) ==
    IF VpcRuleViolated(p) THEN 1
    ELSE IF CdnRuleViolated(p) THEN 2
    ELSE IF SubDomainRuleViolated(p) THEN 3
    ELSE IF EmailRuleViolated(p) THEN 4
    ELSE IF Len(OffendingSecretNames) > 0 THEN 5
    ELSE 0

RuleNames == <<"vpc", "cdn", "subDomain", "email", "secret">>

\* C9 as stated: in every run in which any of the five rules is violated,
\* the constructor throws before any construct is created and before the
\* advisory is emitted; the rules are evaluated in the fixed order VPC, CDN,
\* sub-domain, email, secret and the error is that of the first violated one.
C9_Original ==
    /\ FirstViolated(props) # 0 =>
          /\ resources = <<>>
          /\ warnings = <<>>
          /\ pc \in ValidationPcs \cup {"thrown"}
          /\ pc \in ValidationPcs => PositionOf(pc) <= FirstViolated(props)
          /\ pc = "thrown" => ThrownRule = RuleNames[FirstViolated(props)]
    /\ thrown # None => pc = "thrown" /\ FirstViolated(props) # 0

----------------------------------------------------------------------------
(* Claims about the names of the constructs *)

NamesOf(which) ==
    IF \E i \in DOMAIN resources : resources[i].id = which
    THEN resources[CHOOSE i \in DOMAIN resources : resources[i].id = which].names
    ELSE <<>>

Fits(name, ceiling) ==
    /\ Len(name) <= ceiling
    /\ Len(name) > 0 => name[Len(name)] # "-"

\* C8 as stated: for every environment label, the web task family and
\* service name (ceiling 255), the Redis subnet group name (255) and the
\* Redis replication group id (40) are no longer than their ceiling and do
\* not end with '-'.
C8_Original ==
    /\ NamesOf("WebService") # <<>> =>
          /\ Fits(NamesOf("WebService")[1], 255)
          /\ Fits(NamesOf("WebService")[2], 255)
    /\ NamesOf("Redis") # <<>> =>
          /\ Fits(NamesOf("Redis")[1], 255)
          /\ Fits(NamesOf("Redis")[2], 40)

\* C10 as stated: within one stack the access-log bucket name and the
\* storage bucket name are distinct, for every label, account and region.
C10_Original ==
    (NamesOf("AccessLogBucket") # <<>> /\ NamesOf("StorageBucket") # <<>>) =>
        NamesOf("AccessLogBucket")[1] # NamesOf("StorageBucket")[1]

====
